---- MODULE Spec2Model ----
(***************************************************************************)
(* A model of the VGM chip-volume tools: vgm-chip-volume.py and            *)
(* k007232-dualchip-stereo-or-mono.py.                                     *)
(*                                                                         *)
(* Byte buffers are sequences of integers 0..255.  Python positions are    *)
(* 0-based, so byte p of a buffer b is b[p + 1].                           *)
(***************************************************************************)
EXTENDS Integers, Sequences, FiniteSets, TLC

VARIABLES
    pc,                 \* position of the run being modelled
    k007232_config,     \* chip id -> mode ("stereo" | "mono")
    cmd_stream,         \* process_mono_commands: its input
    i,                  \* process_mono_commands: read position
    processed_cmds,     \* process_mono_commands: its output so far
    length,             \* process_mono_commands: length of the last command read
    infile,             \* main: the file as it was read
    indata,             \* main: the file buffer being edited
    ofsMove,            \* main: the size delta applied to the pointers
    ChipClockHeaders,   \* the clock override list
    ChipVolumeHeaders,  \* the volume override list
    xData,              \* GenerateExtraHeader: its result
    buffer,             \* WriteRelOfs: the buffer
    bufofs,             \* WriteRelOfs: the field position
    value               \* WriteRelOfs: the absolute target

vars == <<pc, k007232_config, cmd_stream, i, processed_cmds, length, infile,
          indata, ofsMove, ChipClockHeaders, ChipVolumeHeaders, xData,
          buffer, bufofs, value>>

foldVars == <<cmd_stream, i, processed_cmds, length>>
mainVars == <<infile, indata, ofsMove>>
relVars == <<buffer, bufofs, value>>

-----------------------------------------------------------------------------
(* Bounds of the model *)

\* most commands in a generated command stream
MaxCmds == 3
\* most bytes cut off the end of a generated command stream
MaxCut == 4
\* longest command stream over RawBytes
MaxRaw == 3
\* most entries in an override list
MaxEntries == 2

-----------------------------------------------------------------------------
(* Python helpers *)

Min(a, b) == IF a < b THEN a ELSE b
Max(a, b) == IF a > b THEN a ELSE b

\* s[a:b] for 0 <= a, b (Python clips both ends to len(s))
Slice(s, a, b) == SubSeq(s, Min(a, Len(s)) + 1, Min(b, Len(s)))

\* s[a:]
SliceFrom(s, a) == Slice(s, a, Len(s))

\* b'\x00' * n (empty when n <= 0)
Zeros(n) == [j \in 1..n |-> 0]

\* struct.pack("<I", v) for 0 <= v < 2^32
PackU32(v) ==
    <<v % 256, (v \div 256) % 256, (v \div 65536) % 256, (v \div 16777216) % 256>>

\* struct.pack("<H", v)
PackU16(v) == <<v % 256, (v \div 256) % 256>>

\* struct.unpack_from("<I", buf, ofs)[0]
UnpackU32(buf, ofs) ==
    buf[ofs + 1] + 256 * buf[ofs + 2] + 65536 * buf[ofs + 3] + 16777216 * buf[ofs + 4]

\* whether struct.pack "<I" accepts v (0 <= v < 2^32)
FitsU32(v) == v >= 0 /\ (v \div 65536) < 65536

\* struct.pack_into("<I", buf, ofs, v) for ofs + 4 <= len(buf)
PackIntoU32(buf, ofs, v) ==
    SubSeq(buf, 1, ofs) \o PackU32(v) \o SubSeq(buf, ofs + 5, Len(buf))

-----------------------------------------------------------------------------
(* ReadRelOfs / WriteRelOfs *)

ReadRelOfs(buf, ofs) ==
    LET val == UnpackU32(buf, ofs)
    IN  IF val = 0 THEN 0 ELSE ofs + val

\* RelValue storing the target as it is
RelValueAbsolute(ofs, target) == target

\* the value WriteRelOfs stores for an absolute target
RelValue(ofs, target) == IF target # 0 THEN target - ofs ELSE target

\* whether WriteRelOfs returns normally (struct.pack_into raises otherwise)
WriteRelOfsOk(buf, ofs, target) ==
    FitsU32(RelValue(ofs, target)) /\ ofs + 4 <= Len(buf)

WriteRelOfs(buf, ofs, target) == PackIntoU32(buf, ofs, RelValue(ofs, target))

-----------------------------------------------------------------------------
(* process_mono_commands (vgm-chip-volume.py): the per-register mono folder *)

ChipIds == {0, 1}
Modes == {"stereo", "mono"}

reg_base(chip) == IF chip = 0 THEN \H10 ELSE \H90

\* the opcode of a K007232 register write
OpWrite == \H41
\* the opcode of a data block
OpDataBlock == \H67

\* cmd_lengths.get(cmd, 1)
cmd_lengths(cmd) ==
    CASE cmd \in {\H40, \H50} -> 1
      [] cmd \in (\H41..\H4F) \cup (\H51..\H5F) -> 3
      [] cmd = \H61 -> 2
      [] cmd \in {\H62, \H63, \H66, \H68} -> 1
      [] cmd = \H67 -> 0
      [] cmd \in \H70..\H8F -> 1
      [] cmd \in {\H90, \H91, \HE0} -> 4
      [] cmd = \H92 -> 6
      [] cmd \in {\H93, \H94} -> 2
      [] cmd = \H95 -> 3
      [] OTHER -> 1

\* CmdLength without the data block case: every opcode by the table
CmdLengthTableOnly(stream, p) == cmd_lengths(stream[p + 1])

\* the length the loop gives the command at position p
CmdLength(stream, p) ==
    LET cmd == stream[p + 1]
    IN  IF cmd = OpDataBlock /\ p + 7 <= Len(stream)
        THEN 7 + UnpackU32(stream, p + 3)
        ELSE cmd_lengths(cmd)

\* ChipAppend with the mirror of base+3 written before the command
ChipAppendMirrorFirst(config, chip, current_cmd) ==
    LET base == reg_base(chip)
        reg == current_cmd[2]
        val == current_cmd[3]
    IN  IF config[chip] # "mono" THEN <<>>
        ELSE IF reg = base + 0 THEN current_cmd \o <<OpWrite, base + 1, val>>
        ELSE IF reg = base + 3 THEN <<OpWrite, base + 2, val>> \o current_cmd
        ELSE <<>>

\* what one pass of the loop over k007232_config appends for chip
ChipAppend(config, chip, current_cmd) ==
    LET base == reg_base(chip)
        reg == current_cmd[2]
        val == current_cmd[3]
    IN  IF config[chip] # "mono" THEN <<>>
        ELSE IF reg = base + 0 THEN current_cmd \o <<OpWrite, base + 1, val>>
        ELSE IF reg = base + 3 THEN current_cmd \o <<OpWrite, base + 2, val>>
        ELSE <<>>

\* ChipModified without the branch that skips writes to base+1 and base+2
ChipModifiedKeeps(config, chip, current_cmd) ==
    /\ config[chip] = "mono"
    /\ current_cmd[2] \in {reg_base(chip), reg_base(chip) + 3}

\* whether the pass for chip sets modified
ChipModified(config, chip, current_cmd) ==
    /\ config[chip] = "mono"
    /\ current_cmd[2] \in reg_base(chip)..(reg_base(chip) + 3)

\* what one loop iteration appends to processed_cmds for current_cmd
Appended(config, cmd, current_cmd) ==
    IF cmd = OpWrite /\ Len(current_cmd) >= 3
    THEN IF ChipModified(config, 0, current_cmd) \/ ChipModified(config, 1, current_cmd)
         THEN ChipAppend(config, 0, current_cmd) \o ChipAppend(config, 1, current_cmd)
         ELSE current_cmd
    ELSE current_cmd

\* one iteration of the while loop
FoldIterate ==
    /\ pc = "loop"
    /\ i < Len(cmd_stream)
    /\ LET len == CmdLength(cmd_stream, i)
       IN  /\ length' = len
           /\ IF i + len > Len(cmd_stream)
              THEN /\ pc' = "done"
                   /\ UNCHANGED <<i, processed_cmds>>
              ELSE /\ processed_cmds' = processed_cmds \o
                          Appended(k007232_config, cmd_stream[i + 1],
                                   Slice(cmd_stream, i, i + len))
                   /\ i' = i + len
                   /\ pc' = "loop"
    /\ UNCHANGED <<k007232_config, cmd_stream, mainVars, ChipClockHeaders,
                   ChipVolumeHeaders, xData, relVars>>

\* the loop condition fails: return processed_cmds
FoldReturn ==
    /\ pc = "loop"
    /\ i >= Len(cmd_stream)
    /\ pc' = "done"
    /\ UNCHANGED <<k007232_config, foldVars, mainVars, ChipClockHeaders,
                   ChipVolumeHeaders, xData, relVars>>

-----------------------------------------------------------------------------
(* Inputs of the per-register mono folder *)

\* a register write command
W(reg, val) == <<OpWrite, reg, val>>

\* complete commands a generated stream is made of: writes to the registers
\* of both chips and outside them, and commands of other opcodes whose
\* operands or payload hold the bytes of a register write
Pieces ==
    { W(\H10, \H7F), W(\H11, \H00), W(\H12, \H10), W(\H13, \H40),
      W(\H90, \H7F), W(\H91, \H7F), W(\H14, \H7F),
      <<\H62>>, <<\H61, \H41>>, <<\H51, \H41, \H11>>,
      <<\H67, \H66, \H00, 3, 0, 0, 0, \H41, \H11, \H7F>> }

RECURSIVE Flatten(_)
Flatten(ps) == IF ps = <<>> THEN <<>> ELSE Head(ps) \o Flatten(Tail(ps))

\* streams of at most MaxCmds commands, with at most MaxCut bytes cut off the end
PieceStreams ==
    { SubSeq(Flatten(ps), 1, Len(Flatten(ps)) - c) :
        ps \in UNION { [1..n -> Pieces] : n \in 0..MaxCmds },
        c \in 0..MaxCut }

RawBytes == {\H41, \H10, \H11, \H67, \H62, \H00}

\* every byte string over RawBytes of at most MaxRaw bytes
RawStreams == UNION { [1..n -> RawBytes] : n \in 0..MaxRaw }

ExampleVals == {\H7F, \H00, \H10, \H40}

\* the four volume writes of one chip in ascending register order
ExampleStream(B, a, b, c, d) == W(B, a) \o W(B + 1, b) \o W(B + 2, c) \o W(B + 3, d)

ExampleStreams ==
    { ExampleStream(reg_base(chip), a, b, c, d) :
        chip \in ChipIds, a \in ExampleVals, b \in ExampleVals,
        c \in ExampleVals, d \in ExampleVals }

Streams == PieceStreams \cup RawStreams \cup ExampleStreams

FoldInit ==
    /\ pc = "loop"
    /\ k007232_config \in [ChipIds -> Modes]
    /\ cmd_stream \in Streams
    /\ i = 0
    /\ processed_cmds = <<>>
    /\ length = 0
    /\ infile = <<>> /\ indata = <<>> /\ ofsMove = 0
    /\ ChipClockHeaders = <<>> /\ ChipVolumeHeaders = <<>> /\ xData = <<>>
    /\ buffer = <<>> /\ bufofs = 0 /\ value = 0

FoldNext == FoldIterate \/ FoldReturn

FoldSpec == FoldInit /\ [][FoldNext]_vars

-----------------------------------------------------------------------------
(* GenerateExtraHeader and its sub-headers.  Override entries are          *)
(* <<chip, instance, value>> with integer values.                          *)

\* a | b for a, b >= 0
RECURSIVE BitOr(_, _)
BitOr(a, b) ==
    IF a = 0 THEN b
    ELSE IF b = 0 THEN a
    ELSE 2 * BitOr(a \div 2, b \div 2) + (IF a % 2 = 1 \/ b % 2 = 1 THEN 1 ELSE 0)

\* bytes of one chip clock entry: struct.pack("<BI", ...)
ClockEntryBytes(clkEntry) ==
    <<BitOr(clkEntry[2] * 128, clkEntry[1])>> \o PackU32(clkEntry[3])

\* bytes of one chip volume entry: struct.pack("<BBH", ...)
VolEntryBytes(clkEntry) ==
    LET chipVol == IF clkEntry[3] < 0
                   THEN BitOr(\H8000, 0 - clkEntry[3])
                   ELSE clkEntry[3]
    IN  <<clkEntry[1], clkEntry[2]>> \o PackU16(chipVol)

GenerateChipClockHeader(hdr) ==
    IF Len(hdr) = 0 THEN <<>>
    ELSE <<Len(hdr)>> \o Flatten([k \in 1..Len(hdr) |-> ClockEntryBytes(hdr[k])])

GenerateChipVolHeader(hdr) ==
    IF Len(hdr) = 0 THEN <<>>
    ELSE <<Len(hdr)>> \o Flatten([k \in 1..Len(hdr) |-> VolEntryBytes(hdr[k])])

\* SubHdrCnt as the number of sub-headers that are not empty
SubHdrCntPresent(subHdrData) ==
    Cardinality({k \in 1..Len(subHdrData) : Len(subHdrData[k]) > 0})

\* subHdrCnt after the first loop: subIdx + 1 of the last sub-header that
\* is not empty (subIdx counts from 0)
SubHdrCnt(subHdrData) ==
    IF \E k \in 1..Len(subHdrData) : Len(subHdrData[k]) > 0
    THEN CHOOSE k \in 1..Len(subHdrData) :
            /\ Len(subHdrData[k]) > 0
            /\ \A m \in (k + 1)..Len(subHdrData) : Len(subHdrData[m]) = 0
    ELSE 0

\* subHdrOfs when the first loop reaches sub-header k (k counts from 1)
RECURSIVE SubHdrOfs(_, _)
SubHdrOfs(subHdrData, k) ==
    IF k = 1 THEN 0
    ELSE SubHdrOfs(subHdrData, k - 1) + Len(subHdrData[k - 1])

\* shOfsList after the second loop
ShOfsList(subHdrData) ==
    [k \in 1..Len(subHdrData) |->
        IF Len(subHdrData[k]) > 0
        THEN SubHdrOfs(subHdrData, k) + (SubHdrCnt(subHdrData) - (k - 1)) * 4
        ELSE 0]

GenerateExtraHeader(clkHdr, volHdr) ==
    LET ccData == GenerateChipClockHeader(clkHdr)
        cvData == GenerateChipVolHeader(volHdr)
        subHdrData == <<ccData, cvData>>
        shOfsList == ShOfsList(subHdrData)
        xhSize == (1 + SubHdrCnt(subHdrData)) * 4
    IN  Slice(PackU32(xhSize) \o PackU32(shOfsList[1]) \o PackU32(shOfsList[2]),
              0, xhSize)
        \o ccData \o cvData

ClockEntries == {<<\H00, 0, 3579545>>, <<\H2A, 1, 3579545>>, <<\H02, 0, 7670453>>}
VolEntries == {<<\H2A, 0, \H100>>, <<\H2A, 1, \H80>>, <<\H00, 0, 0 - \H40>>}

\* override lists of at most MaxEntries entries
ClockLists == UNION { [1..n -> ClockEntries] : n \in 0..MaxEntries }
VolLists == UNION { [1..n -> VolEntries] : n \in 0..MaxEntries }

XhInit ==
    /\ pc = "generate"
    /\ ChipClockHeaders \in ClockLists
    /\ ChipVolumeHeaders \in VolLists
    /\ xData = <<>>
    /\ k007232_config = [chip \in ChipIds |-> "stereo"]
    /\ cmd_stream = <<>> /\ i = 0 /\ processed_cmds = <<>> /\ length = 0
    /\ infile = <<>> /\ indata = <<>> /\ ofsMove = 0
    /\ buffer = <<>> /\ bufofs = 0 /\ value = 0

\* one call of GenerateExtraHeader
XhGenerate ==
    /\ pc = "generate"
    /\ xData' = GenerateExtraHeader(ChipClockHeaders, ChipVolumeHeaders)
    /\ pc' = "generated"
    /\ UNCHANGED <<k007232_config, foldVars, mainVars, ChipClockHeaders,
                   ChipVolumeHeaders, relVars>>

XhNext == XhGenerate

XhSpec == XhInit /\ [][XhNext]_vars

-----------------------------------------------------------------------------
(* main: the header stage (k007232-dualchip-stereo-or-mono.py lines        *)
(* 268-330; vgm-chip-volume.py lines 234-300 are the same statements)      *)

\* positions of the header fields
OfsEof == \H04
OfsVersion == \H08
OfsGd3 == \H14
OfsLoop == \H1C
OfsData == \H34
OfsXHdr == \HBC

\* hdrSize = min([ofs for ofs in [dataOfs, gd3Ofs] if ofs != 0])
HdrSizeOf(dataOfs, gd3Ofs) ==
    IF dataOfs # 0 /\ gd3Ofs # 0 THEN Min(dataOfs, gd3Ofs)
    ELSE IF dataOfs # 0 THEN dataOfs
    ELSE gd3Ofs

\* xHdrData after the alignment padding: (0x00 - len(xHdrData)) & 0x0F zeros
XhPadded(xHdrData) == xHdrData \o Zeros((16 - (Len(xHdrData) % 16)) % 16)

\* xHdrData in the replace branch: xhPad = len(xHdrData) - xDataSize zeros
\* are appended when xDataSize > len(xHdrData)
ReplacePadded(xHdrData, xDataSize) ==
    IF xDataSize > Len(xHdrData)
    THEN xHdrData \o Zeros(Len(xHdrData) - xDataSize)
    ELSE xHdrData

\* InsertOfsMove without the header padding
InsertOfsMoveBlockOnly(hdrPadding, xHdrData) == Len(xHdrData)

\* ofsMove in the insert branch
InsertOfsMove(hdrPadding, xHdrData) == hdrPadding + Len(xHdrData)

\* MovedOfs moving absent pointers too
MovedOfsAlways(ofs, move) == ofs + move

\* loopOfs and gd3Ofs after "if ofs != 0: ofs += ofsMove"
MovedOfs(ofs, move) == IF ofs # 0 THEN ofs + move ELSE ofs

\* "if ofs != 0: WriteRelOfs(indata, pos, ofs)"
WriteIfSet(buf, pos, ofs) == IF ofs # 0 THEN WriteRelOfs(buf, pos, ofs) ELSE buf

\* the header stage on the file inp: the new file and ofsMove
Relocation(inp, clkHdr, volHdr) ==
    LET vgmVer == UnpackU32(inp, OfsVersion)
        gd3Ofs == ReadRelOfs(inp, OfsGd3)
        loopOfs == ReadRelOfs(inp, OfsLoop)
        dataRead == ReadRelOfs(inp, OfsData)
        dataOfs == IF dataRead = 0 THEN \H40 ELSE dataRead
        hdrSize0 == HdrSizeOf(dataOfs, gd3Ofs)
        xDataOfs0 == IF hdrSize0 >= \HC0 THEN ReadRelOfs(inp, OfsXHdr) ELSE 0
        xDataSize == IF xDataOfs0 # 0 THEN hdrSize0 - xDataOfs0 ELSE 0
        hdrSize == IF xDataOfs0 # 0 THEN Min(hdrSize0, xDataOfs0) ELSE hdrSize0
        xHdrData == XhPadded(GenerateExtraHeader(clkHdr, volHdr))
        \* no extra header yet: pad the header to 0xC0 and insert
        xDataOfs == Max(\HC0, hdrSize)
        hdrPadding == xDataOfs - hdrSize
        inserted ==
            WriteRelOfs(
                IF xDataOfs > hdrSize
                THEN Slice(inp, 0, hdrSize) \o Zeros(hdrPadding) \o xHdrData
                         \o SliceFrom(inp, hdrSize)
                ELSE Slice(inp, 0, hdrSize) \o xHdrData \o SliceFrom(inp, hdrSize),
                OfsXHdr, xDataOfs)
        insertMove ==
            IF xDataOfs > hdrSize THEN InsertOfsMove(hdrPadding, xHdrData)
            ELSE Len(xHdrData)
        \* replace the extra header that is there
        xDataEndOfs == hdrSize + xDataSize
        xHdrRepl == ReplacePadded(xHdrData, xDataSize)
        replaced == Slice(inp, 0, hdrSize) \o xHdrRepl \o SliceFrom(inp, xDataEndOfs)
        replaceMove == Len(xHdrRepl) - (xDataEndOfs - hdrSize)
        spliced == IF xDataOfs0 = 0 THEN inserted ELSE replaced
        move == IF xDataOfs0 = 0 THEN insertMove ELSE replaceMove
        \* update the version and rewrite the offsets
        versioned == IF vgmVer < \H170 THEN PackIntoU32(spliced, OfsVersion, \H170)
                     ELSE spliced
        withData == WriteRelOfs(versioned, OfsData, dataOfs + move)
        withLoop == WriteIfSet(withData, OfsLoop, MovedOfs(loopOfs, move))
        withGd3 == WriteIfSet(withLoop, OfsGd3, MovedOfs(gd3Ofs, move))
    IN  [indata |-> WriteRelOfs(withGd3, OfsEof, Len(withGd3)), ofsMove |-> move]

\* the version check fails: the run ends before anything is changed
MainAbort ==
    /\ pc = "loaded"
    /\ UnpackU32(indata, OfsVersion) < \H150
    /\ pc' = "abort"
    /\ UNCHANGED <<k007232_config, foldVars, mainVars, ChipClockHeaders,
                   ChipVolumeHeaders, xData, relVars>>

\* the header stage: locate, insert or replace the extra header, move the offsets
MainRelocate ==
    /\ pc = "loaded"
    /\ UnpackU32(indata, OfsVersion) >= \H150
    /\ LET r == Relocation(indata, ChipClockHeaders, ChipVolumeHeaders)
       IN  /\ indata' = r.indata
           /\ ofsMove' = r.ofsMove
    /\ pc' = "relocated"
    /\ UNCHANGED <<k007232_config, foldVars, infile, ChipClockHeaders,
                   ChipVolumeHeaders, xData, relVars>>

-----------------------------------------------------------------------------
(* Input files of main *)

\* a header byte that is no field of the model
HdrFill(p) == 128 + (p % 100)

\* a byte of an extra header that is already there
OldXhByte == \HEE

Gd3Tag == <<\H47, \H64, \H33, \H20, 0, 1, 0, 0>>

Versions == {\H14F, \H150, \H161, \H170, \H171}

\* lengths of the fixed header of an input file
HdrLengths == {\H40, \H80, \HC0, \H100}

\* sizes of an extra header that is already there
OldXhSizes == {0, 16, 32, 48}

DataStreams ==
    { <<\H62, \H66>>,
      W(\H10, \H7F) \o W(\H11, \H00) \o <<\H66>>,
      ExampleStream(\H90, \H7F, \H00, \H10, \H40) \o <<\H61, \H41>> \o <<\H66>> }

\* a file: a header of hdrLen bytes, an extra header of xhSize bytes when
\* hasXh, then the GD3 tag (gd3At = "before"), the command stream and the
\* GD3 tag (gd3At = "after").  dataZero stores the data offset as 0 (the
\* data then has to start at 0x40); loopAt is the loop point in the
\* command stream, -1 for none.
VgmFile(ver, hdrLen, hasXh, xhSize, dataZero, data, gd3At, loopAt) ==
    LET xhEnd == IF hasXh THEN hdrLen + xhSize ELSE hdrLen
        gd3Pos == IF gd3At = "before" THEN xhEnd
                  ELSE IF gd3At = "after" THEN xhEnd + Len(data)
                  ELSE 0
        dataPos == IF gd3At = "before" THEN xhEnd + Len(Gd3Tag) ELSE xhEnd
        total == xhEnd + Len(data) + (IF gd3At = "none" THEN 0 ELSE Len(Gd3Tag))
        filled == [p \in 1..hdrLen |-> HdrFill(p - 1)]
                  \o (IF hasXh THEN [p \in 1..xhSize |-> OldXhByte] ELSE <<>>)
                  \o (IF gd3At = "before" THEN Gd3Tag ELSE <<>>)
                  \o data
                  \o (IF gd3At = "after" THEN Gd3Tag ELSE <<>>)
        f1 == WriteRelOfs(filled, OfsEof, total)
        f2 == PackIntoU32(f1, OfsVersion, ver)
        f3 == WriteRelOfs(f2, OfsGd3, gd3Pos)
        f4 == WriteRelOfs(f3, OfsLoop, IF loopAt < 0 THEN 0 ELSE dataPos + loopAt)
        f5 == WriteRelOfs(f4, OfsData, IF dataZero THEN 0 ELSE dataPos)
    IN  IF hdrLen >= \HC0
        THEN WriteRelOfs(f5, OfsXHdr, IF hasXh THEN hdrLen ELSE 0)
        ELSE f5

\* the files main is given: an extra header needs a header of 0xC0 bytes, a
\* data offset of 0 needs the data at 0x40, the loop point lies in the data
WellFormed(hdrLen, hasXh, xhSize, dataZero, data, gd3At, loopAt) ==
    /\ hasXh => hdrLen >= \HC0
    /\ ~hasXh => xhSize = 0
    /\ dataZero => (hdrLen = \H40 /\ gd3At # "before")
    /\ loopAt <= Len(data)

\* the override lists of a run: at most MaxEntries entries, all the same
MainClockLists == { [k \in 1..n |-> <<\H2A, 1, 3579545>>] : n \in 0..MaxEntries }
MainVolLists == { [k \in 1..n |-> <<\H2A, 0, \H100>>] : n \in 0..MaxEntries }

MainInit ==
    /\ pc = "loaded"
    /\ \E ver \in Versions, hdrLen \in HdrLengths, hasXh \in BOOLEAN,
          xhSize \in OldXhSizes, dataZero \in BOOLEAN, data \in DataStreams,
          gd3At \in {"none", "before", "after"}, loopAt \in {-1, 0, 3} :
            /\ WellFormed(hdrLen, hasXh, xhSize, dataZero, data, gd3At, loopAt)
            /\ infile = VgmFile(ver, hdrLen, hasXh, xhSize, dataZero, data, gd3At, loopAt)
    /\ indata = infile
    /\ ofsMove = 0
    /\ ChipClockHeaders \in MainClockLists
    /\ ChipVolumeHeaders \in MainVolLists
    /\ xData = <<>>
    /\ k007232_config = [chip \in ChipIds |-> "stereo"]
    /\ cmd_stream = <<>> /\ i = 0 /\ processed_cmds = <<>> /\ length = 0
    /\ buffer = <<>> /\ bufofs = 0 /\ value = 0

MainNext == MainAbort \/ MainRelocate

MainSpec == MainInit /\ [][MainNext]_vars

-----------------------------------------------------------------------------
(* Calls of WriteRelOfs on the header fields *)

FieldPositions == {OfsEof, OfsGd3, OfsLoop, OfsData, OfsXHdr}

\* absolute targets: absent, before, at and after the fields, and large ones
Targets ==
    {0, 1, \H04, \H14, \H1C, \H34, \H35, \H40, \HBC, \HC0, \H100, \H12345,
     \H7FFFFFFF}

\* headers of 0xC0 bytes: all zero, and with every field set
RelBuffers == {Zeros(\HC0), [p \in 1..\HC0 |-> HdrFill(p - 1)]}

RelInit ==
    /\ pc = "write"
    /\ buffer \in RelBuffers
    /\ bufofs \in FieldPositions
    /\ value \in Targets
    /\ k007232_config = [chip \in ChipIds |-> "stereo"]
    /\ cmd_stream = <<>> /\ i = 0 /\ processed_cmds = <<>> /\ length = 0
    /\ infile = <<>> /\ indata = <<>> /\ ofsMove = 0
    /\ ChipClockHeaders = <<>> /\ ChipVolumeHeaders = <<>> /\ xData = <<>>

\* WriteRelOfs(buffer, bufofs, value) returns
RelWrite ==
    /\ pc = "write"
    /\ WriteRelOfsOk(buffer, bufofs, value)
    /\ buffer' = WriteRelOfs(buffer, bufofs, value)
    /\ pc' = "written"
    /\ UNCHANGED <<k007232_config, foldVars, mainVars, ChipClockHeaders,
                   ChipVolumeHeaders, xData, bufofs, value>>

\* WriteRelOfs(buffer, bufofs, value) raises struct.error: nothing is written
RelRaise ==
    /\ pc = "write"
    /\ ~WriteRelOfsOk(buffer, bufofs, value)
    /\ pc' = "error"
    /\ UNCHANGED <<k007232_config, foldVars, mainVars, ChipClockHeaders,
                   ChipVolumeHeaders, xData, relVars>>

RelNext == RelWrite \/ RelRaise

RelSpec == RelInit /\ [][RelNext]_vars

-----------------------------------------------------------------------------
(* The complete run of vgm-chip-volume.py: the header stage, then the mono *)
(* stage (lines 304-309) and the output (lines 311-318, which are part of  *)
(* the body of the "if any(... == 'mono' ...)" statement).                 *)

\* no chip is in mono mode: the statement is skipped, and the output with it
RunSkipMono ==
    /\ pc = "relocated"
    /\ \A chip \in ChipIds : k007232_config[chip] # "mono"
    /\ pc' = "exit"
    /\ UNCHANGED <<k007232_config, foldVars, mainVars, ChipClockHeaders,
                   ChipVolumeHeaders, xData, relVars>>

\* a chip is in mono mode: slice the command stream at the data offset and
\* call process_mono_commands
RunMonoStart ==
    /\ pc = "relocated"
    /\ \E chip \in ChipIds : k007232_config[chip] = "mono"
    /\ cmd_stream' = SliceFrom(indata, ReadRelOfs(indata, OfsData))
    /\ i' = 0
    /\ processed_cmds' = <<>>
    /\ length' = 0
    /\ pc' = "loop"
    /\ UNCHANGED <<k007232_config, mainVars, ChipClockHeaders,
                   ChipVolumeHeaders, xData, relVars>>

\* the file after the mono stage: the header, the processed commands, and
\* the EOF offset of the new length
RunStored(buf, dataOfs, processed) ==
    WriteRelOfs(Slice(buf, 0, dataOfs) \o processed, OfsEof,
                Len(Slice(buf, 0, dataOfs) \o processed))

\* process_mono_commands has returned: store its result and write the output
RunMonoFinish ==
    /\ pc = "done"
    /\ indata' = RunStored(indata, ReadRelOfs(indata, OfsData), processed_cmds)
    /\ pc' = "written"
    /\ UNCHANGED <<k007232_config, foldVars, infile, ofsMove, ChipClockHeaders,
                   ChipVolumeHeaders, xData, relVars>>

\* command streams of the files of a run, each ended by the 0x66 command
RunDataStreams ==
    { <<\H62, \H66>>,
      W(\H10, \H7F) \o <<\H62, \H66>>,
      W(\H11, \H00) \o <<\H62, \H66>>,
      ExampleStream(\H90, \H7F, \H00, \H10, \H40) \o <<\H66>>,
      <<\H62>> \o W(\H13, \H40) \o <<\H62, \H66>> }

RunInit ==
    /\ pc = "loaded"
    /\ \E ver \in {\H14F, \H161}, hdrLen \in {\H40, \HC0}, hasXh \in BOOLEAN,
          xhSize \in {0, 32}, dataZero \in BOOLEAN, data \in RunDataStreams,
          gd3At \in {"none", "before", "after"}, loopAt \in {-1, 0, 3} :
            /\ WellFormed(hdrLen, hasXh, xhSize, dataZero, data, gd3At, loopAt)
            /\ infile = VgmFile(ver, hdrLen, hasXh, xhSize, dataZero, data, gd3At, loopAt)
    /\ indata = infile
    /\ ofsMove = 0
    /\ ChipClockHeaders = <<>>
    /\ ChipVolumeHeaders = <<>>
    /\ xData = <<>>
    /\ k007232_config \in [ChipIds -> Modes]
    /\ cmd_stream = <<>> /\ i = 0 /\ processed_cmds = <<>> /\ length = 0
    /\ buffer = <<>> /\ bufofs = 0 /\ value = 0

RunNext ==
    \/ MainAbort
    \/ MainRelocate
    \/ RunSkipMono
    \/ RunMonoStart
    \/ FoldIterate
    \/ FoldReturn
    \/ RunMonoFinish

RunSpec == RunInit /\ [][RunNext]_vars

-----------------------------------------------------------------------------
(* process_mono_commands of k007232-dualchip-stereo-or-mono.py: the folder *)
(* that matches blocks of four writes. cmd_stream holds cmds, and          *)
(* processed_cmds holds out.                                               *)

MaxBlocks == 2

\* the four registers base..base+3 are written by the 12 bytes at p, in any order
IsBlockAtAnyOrder(cmds, p, base) ==
    /\ p + 12 <= Len(cmds)
    /\ \A off \in 0..3 : cmds[p + off * 3 + 1] = OpWrite
    /\ {cmds[p + off * 3 + 2] : off \in 0..3} = {base + off : off \in 0..3}

\* the condition of the inner if: the 12 bytes at p are writes to base+0,
\* base+1, base+2 and base+3
IsBlockAt(cmds, p, base) ==
    /\ p + 12 <= Len(cmds)
    /\ \A off \in 0..3 :
          /\ cmds[p + off * 3 + 1] = OpWrite
          /\ cmds[p + off * 3 + 2] = base + off
          /\ 0 <= cmds[p + off * 3 + 3]
          /\ cmds[p + off * 3 + 3] <= \HFF

\* the four writes the folder emits for a block
MonoBlock(base, left_ch0, right_ch1) ==
    <<OpWrite, base + 0, left_ch0>> \o <<OpWrite, base + 1, left_ch0>> \o
    <<OpWrite, base + 2, right_ch1>> \o <<OpWrite, base + 3, right_ch1>>

\* the chips of the for loop whose body reaches the break at position p
BlockChips(config, cmds, p) ==
    {chip \in ChipIds : config[chip] = "mono" /\ IsBlockAt(cmds, p, reg_base(chip))}

\* one pass of the while loop: the first chip with a block at i rewrites it,
\* and the else branch of the for loop copies one byte
BlockIterate ==
    /\ pc = "scan"
    /\ i < length
    /\ IF BlockChips(k007232_config, cmd_stream, i) # {}
       THEN LET chip == CHOOSE c \in BlockChips(k007232_config, cmd_stream, i) :
                            \A d \in BlockChips(k007232_config, cmd_stream, i) : c <= d
            IN  /\ processed_cmds' = processed_cmds \o
                       MonoBlock(reg_base(chip), cmd_stream[i + 3], cmd_stream[i + 12])
                /\ i' = i + 12
       ELSE /\ processed_cmds' = Append(processed_cmds, cmd_stream[i + 1])
            /\ i' = i + 1
    /\ UNCHANGED <<pc, k007232_config, cmd_stream, length, mainVars,
                   ChipClockHeaders, ChipVolumeHeaders, xData, relVars>>

BlockReturn ==
    /\ pc = "scan"
    /\ i >= length
    /\ pc' = "returned"
    /\ UNCHANGED <<k007232_config, foldVars, mainVars, ChipClockHeaders,
                   ChipVolumeHeaders, xData, relVars>>

\* parts of the streams given to the folder: blocks of both chips, the four
\* writes reordered, separated by a wait and without the last one, and single
\* commands and bytes
BlockPieces ==
    { ExampleStream(\H10, \H7F, \H00, \H10, \H40),
      ExampleStream(\H10, \H20, \H20, \H30, \H30),
      ExampleStream(\H90, \H00, \H7F, \H40, \H10),
      W(\H11, \H00) \o W(\H10, \H7F) \o W(\H12, \H10) \o W(\H13, \H40),
      W(\H10, \H7F) \o W(\H11, \H00) \o <<\H62>> \o W(\H12, \H10) \o W(\H13, \H40),
      W(\H90, \H7F) \o W(\H91, \H00) \o W(\H92, \H10),
      W(\H14, \H7F),
      <<\H62>>, <<\H41>>, <<\H67, \H66, \H00>>, <<\H66>> }

BlockStreams ==
    { Flatten(ps) : ps \in UNION { [1..n -> BlockPieces] : n \in 0..MaxBlocks } }

BlockInit ==
    /\ pc = "scan"
    /\ k007232_config \in [ChipIds -> Modes]
    /\ cmd_stream \in BlockStreams
    /\ length = Len(cmd_stream)
    /\ i = 0
    /\ processed_cmds = <<>>
    /\ infile = <<>> /\ indata = <<>> /\ ofsMove = 0
    /\ ChipClockHeaders = <<>> /\ ChipVolumeHeaders = <<>> /\ xData = <<>>
    /\ buffer = <<>> /\ bufofs = 0 /\ value = 0

BlockNext == BlockIterate \/ BlockReturn

BlockSpec == BlockInit /\ [][BlockNext]_vars

-----------------------------------------------------------------------------
(* Reading a command stream by the documented command lengths *)

IsSuffix(t, s) == Len(t) <= Len(s) /\ SubSeq(s, Len(s) - Len(t) + 1, Len(s)) = t

\* the declared length of the command at position p: the table length, or
\* 7 + payloadSize for a data block (at least 7 when its size field is cut)
DeclaredLen(stream, p) ==
    IF stream[p + 1] = OpDataBlock
    THEN IF p + 7 <= Len(stream) THEN 7 + UnpackU32(stream, p + 3) ELSE 7
    ELSE cmd_lengths(stream[p + 1])

\* the byte ranges of the stream from position p on: its commands, and the
\* remaining bytes as one last range when the next command does not fit
RECURSIVE Tokens(_, _)
Tokens(stream, p) ==
    IF p >= Len(stream) THEN <<>>
    ELSE IF p + DeclaredLen(stream, p) > Len(stream) THEN <<SliceFrom(stream, p)>>
    ELSE <<Slice(stream, p, p + DeclaredLen(stream, p))>>
             \o Tokens(stream, p + DeclaredLen(stream, p))

IsWriteTo(tok, reg) == Len(tok) = 3 /\ tok[1] = OpWrite /\ tok[2] = reg

\* how many of the ranges toks are writes to register reg
WritesTo(toks, reg) == Cardinality({k \in 1..Len(toks) : IsWriteTo(toks[k], reg)})

MonoChips == {chip \in ChipIds : k007232_config[chip] = "mono"}

\* whether some range is a write to a register of a chip in mono mode
HasMonoWrite(toks) ==
    \E k \in 1..Len(toks), chip \in MonoChips, r \in 0..3 :
        IsWriteTo(toks[k], reg_base(chip) + r)

-----------------------------------------------------------------------------
(* C1: when the declared length of the next command exceeds the bytes that *)
(* remain, the remaining bytes are the tail of the output; and a stream    *)
(* with no write to a register of a mono chip is returned byte for byte,   *)
(* also when it ends inside a command.                                     *)
TruncatedTailPreserved ==
    pc = "done" =>
        /\ i < Len(cmd_stream) => IsSuffix(SliceFrom(cmd_stream, i), processed_cmds)
        /\ ~HasMonoWrite(Tokens(cmd_stream, 0)) => processed_cmds = cmd_stream

(* C2: every iteration of the loop either stops it or moves the read       *)
(* position forward by at least one byte.                                  *)
LoopAdvances == [][pc = "loop" => (pc' = "done" \/ i' > i)]_vars

\* the example of C5 read off the input: the four writes of chip in order
IsExampleOf(chip) ==
    /\ Len(cmd_stream) = 12
    /\ cmd_stream = ExampleStream(reg_base(chip), cmd_stream[3], cmd_stream[6],
                                  cmd_stream[9], cmd_stream[12])

(* C5 as stated: 41 B a | 41 B+1 b | 41 B+2 c | 41 B+3 d with chip B in    *)
(* mono mode gives 41 B a | 41 B+1 a | 41 B+2 d | 41 B+3 d.                *)
ExampleAscending ==
    \A chip \in ChipIds :
        (pc = "done" /\ chip \in MonoChips /\ IsExampleOf(chip)) =>
            processed_cmds = ExampleStream(reg_base(chip), cmd_stream[3],
                                 cmd_stream[3], cmd_stream[12], cmd_stream[12])

(* C5 amended: the same input gives 41 B a | 41 B+1 a | 41 B+3 d | 41 B+2 d: *)
(* the mirror of B+3 follows the write to B+3.                             *)
ExampleMirrored ==
    \A chip \in ChipIds :
        (pc = "done" /\ chip \in MonoChips /\ IsExampleOf(chip)) =>
            processed_cmds =
                W(reg_base(chip), cmd_stream[3]) \o W(reg_base(chip) + 1, cmd_stream[3])
                \o W(reg_base(chip) + 3, cmd_stream[12])
                \o W(reg_base(chip) + 2, cmd_stream[12])

ExampleMirroredWitness ==
    /\ pc = "done"
    /\ k007232_config[0] = "mono"
    /\ cmd_stream = <<\H41, \H10, \H7F, \H41, \H11, \H00, \H41, \H12, \H10, \H41, \H13, \H40>>
    /\ processed_cmds = <<\H41, \H10, \H7F, \H41, \H11, \H7F, \H41, \H13, \H40, \H41, \H12, \H40>>

\* in the ranges toks, every write to register reg directly follows a write
\* of the same value to register src
FollowsMirror(toks, reg, src) ==
    \A k \in 1..Len(toks) :
        IsWriteTo(toks[k], reg) =>
            k > 1 /\ IsWriteTo(toks[k - 1], src) /\ toks[k - 1][3] = toks[k][3]

(* C6: for a chip B in mono mode, every write to B+1 in the output directly *)
(* follows a write of the same value to B+0, every write to B+2 directly   *)
(* follows a write of the same value to B+3, and the output holds exactly  *)
(* one write to B+1 (B+2) for each write to B+0 (B+3) read so far: no      *)
(* write to B+1 or B+2 of the input is in it.                              *)
MirrorsOnly ==
    \A chip \in MonoChips :
        LET B == reg_base(chip)
            out == Tokens(processed_cmds, 0)
            in == Tokens(Slice(cmd_stream, 0, i), 0)
        IN  /\ FollowsMirror(out, B + 1, B + 0)
            /\ FollowsMirror(out, B + 2, B + 3)
            /\ WritesTo(out, B + 1) = WritesTo(in, B + 0)
            /\ WritesTo(out, B + 2) = WritesTo(in, B + 3)
            /\ WritesTo(out, B + 0) = WritesTo(in, B + 0)
            /\ WritesTo(out, B + 3) = WritesTo(in, B + 3)

\* writes to B+1 and B+2 were read and the mirrors of B+0 and B+3 written
MirrorsOnlyWitness ==
    /\ pc = "done"
    /\ k007232_config[0] = "mono"
    /\ cmd_stream = W(\H11, \H00) \o W(\H13, \H40) \o W(\H12, \H10)
    /\ processed_cmds = W(\H13, \H40) \o W(\H12, \H40)

\* whether position p is where a command of the stream starts (or its
\* end), reading the commands from position from on
RECURSIVE IsBoundary(_, _, _)
IsBoundary(stream, p, from) ==
    IF from = p THEN TRUE
    ELSE IF from > p \/ from >= Len(stream) THEN FALSE
    ELSE IsBoundary(stream, p, from + DeclaredLen(stream, from))

(* C7: the read position is always at a command boundary, and a command of *)
(* an opcode other than 0x41 that fits in the buffer is appended to the    *)
(* output unchanged, all declared bytes of it, with the read position      *)
(* moving to the byte after it.                                            *)
OtherCommandsCopied ==
    /\ [](IsBoundary(cmd_stream, i, 0))
    /\ [][(/\ pc = "loop"
           /\ i < Len(cmd_stream)
           /\ cmd_stream[i + 1] # OpWrite
           /\ i + DeclaredLen(cmd_stream, i) <= Len(cmd_stream))
          => (/\ processed_cmds' = processed_cmds \o
                     Slice(cmd_stream, i, i + DeclaredLen(cmd_stream, i))
              /\ i' = i + DeclaredLen(cmd_stream, i)
              /\ pc' = "loop")]_vars

\* a data block whose payload is the bytes of a write to B+1 was copied whole
OtherCommandsCopiedWitness ==
    /\ pc = "done"
    /\ k007232_config[0] = "mono"
    /\ cmd_stream = <<\H62, \H67, \H66, \H00, 3, 0, 0, 0, \H41, \H11, \H7F>>
    /\ processed_cmds = cmd_stream

-----------------------------------------------------------------------------
(* The layout of an extra header block *)

\* the sub-blocks of the lists, slot 1 the clock table, slot 2 the volume table
SubBlocks ==
    <<GenerateChipClockHeader(ChipClockHeaders), GenerateChipVolHeader(ChipVolumeHeaders)>>

\* the entry counts the sub-blocks start with
EntryCounts == <<Len(ChipClockHeaders), Len(ChipVolumeHeaders)>>

\* where the sub-block of slot s starts in xData: the sub-blocks end the block
SubBlockPos(s) ==
    IF s = 1 THEN Len(xData) - Len(SubBlocks[2]) - Len(SubBlocks[1])
    ELSE Len(xData) - Len(SubBlocks[2])

\* the pointer field of slot s is there and says what it should: 0 for an
\* empty sub-block, else the distance from the field to the entry count byte
SlotPointsAtCount(s) ==
    /\ 4 * s + 4 <= SubBlockPos(1)
    /\ IF SubBlocks[s] = <<>>
       THEN UnpackU32(xData, 4 * s) = 0
       ELSE /\ 4 * s + UnpackU32(xData, 4 * s) = SubBlockPos(s)
            /\ xData[SubBlockPos(s) + 1] = EntryCounts[s]

LastSlot ==
    IF SubBlocks[2] # <<>> THEN 2 ELSE IF SubBlocks[1] # <<>> THEN 1 ELSE 0

-----------------------------------------------------------------------------
(* The header stage, read off the file before (infile) and after (indata) *)

PointerFields == {OfsData, OfsLoop, OfsGd3}

\* the size delta of the stage
Delta == Len(indata) - Len(infile)

\* where the header of the input ends: the least target of the data and
\* GD3 offsets, the data offset read as 0x40 when it is stored as 0
InHdrSize ==
    HdrSizeOf(IF UnpackU32(infile, OfsData) = 0 THEN \H40
              ELSE ReadRelOfs(infile, OfsData),
              ReadRelOfs(infile, OfsGd3))

\* where the extra header of the input starts, 0 when it has none
InXhOfs == IF InHdrSize >= \HC0 THEN ReadRelOfs(infile, OfsXHdr) ELSE 0

\* the new block of the run: the generated extra header, padded to 16 bytes
NewBlock == XhPadded(GenerateExtraHeader(ChipClockHeaders, ChipVolumeHeaders))

ShorterBlockPadded ==
    (pc = "relocated" /\ InXhOfs # 0 /\ Len(NewBlock) < InHdrSize - InXhOfs) =>
        /\ Len(indata) = Len(infile)
        /\ Slice(indata, InXhOfs, InHdrSize) =
               NewBlock \o Zeros(InHdrSize - InXhOfs - Len(NewBlock))
        /\ \A f \in PointerFields : UnpackU32(indata, f) = UnpackU32(infile, f)

(* C8: every pointer field among dataOffset, loopOffset, gd3Offset that is *)
(* not 0 in the input resolves to its old target plus delta, and the bytes *)
(* from the new target on are the input bytes from the old target on; a    *)
(* file without extra header whose header ends before 0xC0 grows by        *)
(* (0xC0 - hdrSize) + len(block), and the block starts at 0xC0.            *)
PointersFollowDelta ==
    pc = "relocated" =>
        /\ \A f \in PointerFields :
              UnpackU32(infile, f) # 0 =>
                  /\ ReadRelOfs(indata, f) = ReadRelOfs(infile, f) + Delta
                  /\ SliceFrom(indata, ReadRelOfs(indata, f)) =
                         SliceFrom(infile, ReadRelOfs(infile, f))
        /\ (InXhOfs = 0 /\ InHdrSize < \HC0) =>
              /\ Delta = (\HC0 - InHdrSize) + Len(NewBlock)
              /\ Slice(indata, \HC0, \HC0 + Len(NewBlock)) = NewBlock
              /\ ReadRelOfs(indata, OfsXHdr) = \HC0

\* a header of 0x40 bytes was padded to 0xC0 and a block of 32 bytes
\* inserted; the loop and GD3 offsets were moved
PointersFollowDeltaWitness ==
    /\ pc = "relocated"
    /\ InHdrSize = \H40
    /\ \A f \in PointerFields : UnpackU32(infile, f) # 0
    /\ Len(NewBlock) = 32
    /\ Delta = \H80 + 32
    /\ ReadRelOfs(indata, OfsLoop) = ReadRelOfs(infile, OfsLoop) + \H80 + 32

-----------------------------------------------------------------------------
-----------------------------------------------------------------------------
(* The complete run, read off the file before (infile) and after (indata) *)

\* the command at position t of a buffer, empty at its end
CommandAt(buf, t) ==
    IF t >= Len(buf) THEN <<>> ELSE Slice(buf, t, t + DeclaredLen(buf, t))

\* whether a command is a write the mono stage drops
IsDroppedWrite(cmd) ==
    \E chip \in MonoChips, r \in {1, 2} : IsWriteTo(cmd, reg_base(chip) + r)

\* the loop-start command of the input, kept by the mono stage
InLoopCmd == CommandAt(infile, ReadRelOfs(infile, OfsLoop))

-----------------------------------------------------------------------------
(* The block folder, read off its input and output *)

\* the 12 bytes at w are four writes to B+0, B+1, B+2, B+3, in this order,
\* for the base B of a chip in mono mode
AscendingWindow(w) ==
    /\ w + 12 <= Len(cmd_stream)
    /\ \E chip \in MonoChips :
          \A k \in 0..3 : /\ cmd_stream[w + 3 * k + 1] = \H41
                          /\ cmd_stream[w + 3 * k + 2] = reg_base(chip) + k

\* the output is as long as the part of the input already scanned, and a
\* byte of it that differs from the input lies in an ascending window
BlockFrame ==
    pc \in {"scan", "returned"} =>
        /\ Len(processed_cmds) = i
        /\ i <= Len(cmd_stream)
        /\ pc = "returned" => Len(processed_cmds) = Len(cmd_stream)
        /\ \A p \in 1..Len(processed_cmds) :
              processed_cmds[p] # cmd_stream[p] =>
                  \E w \in 0..(p - 1) : p <= w + 12 /\ AscendingWindow(w)

\* a step at a scan position outside an ascending window copies one byte, and
\* a step at an ascending window emits 12 bytes
BlockStep ==
    (pc = "scan" /\ i < Len(cmd_stream)) =>
        /\ cmd_stream' = cmd_stream
        /\ IF AscendingWindow(i)
           THEN /\ i' = i + 12
                /\ Len(processed_cmds') = Len(processed_cmds) + 12
                /\ SubSeq(processed_cmds', 1, Len(processed_cmds)) = processed_cmds
           ELSE /\ i' = i + 1
                /\ processed_cmds' = Append(processed_cmds, cmd_stream[i + 1])

(* C12: the block folder returns a stream as long as its input; it changes *)
(* bytes only inside a 12-byte window that, at the scan position, is four  *)
(* writes 41 B+0, 41 B+1, 41 B+2, 41 B+3 in ascending order for the base B *)
(* of a chip in mono mode, and copies every other byte unchanged.          *)
BlockFolderFrame == [](BlockFrame) /\ [][BlockStep]_vars

\* a returned stream whose first 12 bytes were an ascending window and were
\* rewritten, and whose next 12 bytes, the same writes reordered, were copied
BlockFolderFrameWitness ==
    /\ pc = "returned"
    /\ Len(cmd_stream) = 24
    /\ AscendingWindow(0)
    /\ SubSeq(processed_cmds, 1, 12) # SubSeq(cmd_stream, 1, 12)
    /\ \E chip \in MonoChips :
          /\ cmd_stream[14] = reg_base(chip) + 1
          /\ cmd_stream[17] = reg_base(chip)
    /\ SubSeq(processed_cmds, 13, 24) = SubSeq(cmd_stream, 13, 24)

====
